---- MODULE Spec2Model ----
(***************************************************************************)
(* Model of src/interval.rs: the Boundary<T> and Interval<T> value types   *)
(* and their operations, with T instantiated to the integers 0..MaxPoint.  *)
(* Every operation of the source is a pure function, modelled by an        *)
(* operator of the same name; one action per public operation applies it   *)
(* to operands held in the state and records the call and what it returned.*)
(***************************************************************************)
EXTENDS Integers, Sequences, FiniteSets, TLC

\* Largest point value of the instantiated point type T.
MaxPoint == 3

\* The values of the point type T.
Point == 0..MaxPoint

(***************************************************************************)
(* Boundary<T>                                                             *)
(***************************************************************************)
Include(p) == [tag |-> "Include", point |-> p]

Exclude(p) == [tag |-> "Exclude", point |-> p]

Boundary == {Include(p) : p \in Point} \cup {Exclude(p) : p \in Point}

\* Option<_>
None == [tag |-> "None"]

Some(v) == [tag |-> "Some", val |-> v]

is_closed(b) == (b.tag = "Include")

is_open(b) == ~is_closed(b)

\* impl Deref for Boundary: **self is the wrapped point.
deref(b) == b.point

\* Variant of intersect_or_least with the equal-point test weakened to "either
\* is closed"; the combinator properties must tell it from the original.
intersect_or_least_either(x, y) ==
    IF deref(x) = deref(y)
    THEN IF is_closed(x) \/ is_closed(y) THEN Include(deref(x)) ELSE Exclude(deref(x))
    ELSE IF deref(x) < deref(y) THEN x ELSE y

intersect_or_least(x, y) ==
    IF deref(x) = deref(y)
    THEN IF is_closed(x) /\ is_closed(y) THEN x ELSE Exclude(deref(x))
    ELSE IF deref(x) < deref(y) THEN x ELSE y

intersect_or_greatest(x, y) ==
    IF deref(x) = deref(y)
    THEN IF is_closed(x) /\ is_closed(y) THEN x ELSE Exclude(deref(x))
    ELSE IF deref(x) > deref(y) THEN x ELSE y

union_or_least(x, y) ==
    IF deref(x) = deref(y)
    THEN IF is_open(x) /\ is_open(y) THEN x ELSE Include(deref(x))
    ELSE IF deref(x) < deref(y) THEN x ELSE y

union_or_greatest(x, y) ==
    IF deref(x) = deref(y)
    THEN IF is_open(x) /\ is_open(y) THEN x ELSE Include(deref(x))
    ELSE IF deref(x) > deref(y) THEN x ELSE y

(***************************************************************************)
(* Interval<T>                                                             *)
(***************************************************************************)
\* Variant of new that never swaps its arguments.
new_never_swaps(start, end) ==
    IF end.tag = "Some"
    THEN [start |-> start, end |-> end.val]
    ELSE [start |-> start, end |-> start]

\* Variant of new with the comparison reversed: it swaps ordered arguments.
new_swaps_ordered(start, end) ==
    IF end.tag = "Some"
    THEN IF deref(end.val) > deref(start)
         THEN [start |-> end.val, end |-> start]
         ELSE [start |-> start, end |-> end.val]
    ELSE [start |-> start, end |-> start]

\* Interval::new(start, end): end is an Option<Boundary<T>>.
new(start, end) ==
    IF end.tag = "Some"
    THEN IF deref(end.val) < deref(start)
         THEN [start |-> end.val, end |-> start]
         ELSE [start |-> start, end |-> end.val]
    ELSE [start |-> start, end |-> start]

open(s, e) == new(Exclude(s), Some(Exclude(e)))

closed(s, e) == new(Include(s), Some(Include(e)))

left_open(s, e) == new(Exclude(s), Some(Include(e)))

right_open(s, e) == new(Include(s), Some(Exclude(e)))

left_point(i) == deref(i.start)

right_point(i) == deref(i.end)

left_bound(i) == i.start

right_bound(i) == i.end

\* Variant of is_empty that compares the points only, not the boundaries.
is_empty_points_only(i) == i.start.point = i.end.point /\ ~(i.start.tag = "Include")

is_empty(i) == left_bound(i) = right_bound(i) /\ is_open(left_bound(i))

\* Variant of contains that consults the left boundary's tag at both ends.
contains_left_tag_twice(i, p) ==
    \/ p > i.start.point /\ p < i.end.point
    \/ p = i.start.point /\ i.start.tag = "Include"
    \/ p = i.end.point /\ i.start.tag = "Include"

contains(i, p) ==
    \/ p > left_point(i) /\ p < right_point(i)
    \/ p = left_point(i) /\ is_closed(left_bound(i))
    \/ p = right_point(i) /\ is_closed(right_bound(i))

\* Variant of intersect that accepts a touching point closed on either side.
intersect_touch_either(self_, other_) ==
    IF is_empty(self_) \/ is_empty(other_) THEN None
    ELSE IF self_ = other_ THEN Some(self_)
    ELSE LET a == IF left_point(self_) <= left_point(other_) THEN self_ ELSE other_
             b == IF left_point(self_) <= left_point(other_) THEN other_ ELSE self_
         IN  IF right_point(a) < left_point(b) THEN None
             ELSE IF right_point(a) = left_point(b)
                  THEN IF is_closed(right_bound(a)) \/ is_closed(left_bound(b))
                       THEN Some(new(Include(right_point(a)), None))
                       ELSE None
                  ELSE Some(new(intersect_or_greatest(left_bound(a), left_bound(b)),
                                Some(intersect_or_least(right_bound(a), right_bound(b)))))

\* Variant of intersect that tests for identical operands before emptiness.
intersect_same_first(self_, other_) ==
    IF self_ = other_ THEN Some(self_)
    ELSE IF is_empty(self_) \/ is_empty(other_) THEN None
    ELSE LET a == IF left_point(self_) <= left_point(other_) THEN self_ ELSE other_
             b == IF left_point(self_) <= left_point(other_) THEN other_ ELSE self_
         IN  IF right_point(a) < left_point(b) THEN None
             ELSE IF right_point(a) = left_point(b)
                  THEN IF is_closed(right_bound(a)) /\ is_closed(left_bound(b))
                       THEN Some(new(Include(right_point(a)), None))
                       ELSE None
                  ELSE Some(new(intersect_or_greatest(left_bound(a), left_bound(b)),
                                Some(intersect_or_least(right_bound(a), right_bound(b)))))

\* Variant of intersect without the test for identical operands.
intersect_no_same_check(self_, other_) ==
    IF is_empty(self_) \/ is_empty(other_) THEN None
    ELSE LET a == IF left_point(self_) <= left_point(other_) THEN self_ ELSE other_
             b == IF left_point(self_) <= left_point(other_) THEN other_ ELSE self_
         IN  IF right_point(a) < left_point(b) THEN None
             ELSE IF right_point(a) = left_point(b)
                  THEN IF is_closed(right_bound(a)) /\ is_closed(left_bound(b))
                       THEN Some(new(Include(right_point(a)), None))
                       ELSE None
                  ELSE Some(new(intersect_or_greatest(left_bound(a), left_bound(b)),
                                Some(intersect_or_least(right_bound(a), right_bound(b)))))

intersect(self_, other_) ==
    IF is_empty(self_) \/ is_empty(other_) THEN None
    ELSE IF self_ = other_ THEN Some(self_)
    ELSE LET a == IF left_point(self_) <= left_point(other_) THEN self_ ELSE other_
             b == IF left_point(self_) <= left_point(other_) THEN other_ ELSE self_
         IN  IF right_point(a) < left_point(b) THEN None
             ELSE IF right_point(a) = left_point(b)
                  THEN IF is_closed(right_bound(a)) /\ is_closed(left_bound(b))
                       THEN Some(new(Include(right_point(a)), None))
                       ELSE None
                  ELSE Some(new(intersect_or_greatest(left_bound(a), left_bound(b)),
                                Some(intersect_or_least(right_bound(a), right_bound(b)))))

\* unimplemented!() unwinds the calling thread: the call returns nothing.
Panic == [tag |-> "Panic"]

(***************************************************************************)
(* State: two interval operands, and the last call (its name, its          *)
(* arguments other than the operands, what it returned), and whether a     *)
(* call has panicked.                                                      *)
(***************************************************************************)
VARIABLES self, other, op, args, ret, panicked

vars == <<self, other, op, args, ret, panicked>>

\* Every value Interval::new can return.
Interval == {new(l, e) : l \in Boundary, e \in {None} \cup {Some(r) : r \in Boundary}}

Init ==
    /\ self \in Interval
    /\ other \in Interval
    /\ op = "none"
    /\ args = <<>>
    /\ ret = None
    /\ panicked = FALSE

\* The constructors: the interval built becomes the operand self of later
\* calls, and the former self becomes other.
New ==
    /\ ~panicked
    /\ \E l \in Boundary, e \in {None} \cup {Some(r) : r \in Boundary} :
        /\ op' = "new"
        /\ args' = [start |-> l, end |-> e]
        /\ ret' = new(l, e)
        /\ self' = new(l, e)
    /\ other' = self
    /\ UNCHANGED panicked

Open ==
    /\ ~panicked
    /\ \E s \in Point, e \in Point :
        /\ op' = "open"
        /\ args' = [start |-> s, end |-> e]
        /\ ret' = open(s, e)
        /\ self' = open(s, e)
    /\ other' = self
    /\ UNCHANGED panicked

Closed ==
    /\ ~panicked
    /\ \E s \in Point, e \in Point :
        /\ op' = "closed"
        /\ args' = [start |-> s, end |-> e]
        /\ ret' = closed(s, e)
        /\ self' = closed(s, e)
    /\ other' = self
    /\ UNCHANGED panicked

LeftOpen ==
    /\ ~panicked
    /\ \E s \in Point, e \in Point :
        /\ op' = "left_open"
        /\ args' = [start |-> s, end |-> e]
        /\ ret' = left_open(s, e)
        /\ self' = left_open(s, e)
    /\ other' = self
    /\ UNCHANGED panicked

RightOpen ==
    /\ ~panicked
    /\ \E s \in Point, e \in Point :
        /\ op' = "right_open"
        /\ args' = [start |-> s, end |-> e]
        /\ ret' = right_open(s, e)
        /\ self' = right_open(s, e)
    /\ other' = self
    /\ UNCHANGED panicked

\* The queries and intersect: the operands are left alone.
IsEmpty ==
    /\ ~panicked
    /\ op' = "is_empty"
    /\ args' = <<>>
    /\ ret' = is_empty(self)
    /\ UNCHANGED <<self, other, panicked>>

Contains ==
    /\ ~panicked
    /\ \E p \in Point :
        /\ op' = "contains"
        /\ args' = [point |-> p]
        /\ ret' = contains(self, p)
    /\ UNCHANGED <<self, other, panicked>>

Intersect ==
    /\ ~panicked
    /\ op' = "intersect"
    /\ args' = <<>>
    /\ ret' = intersect(self, other)
    /\ UNCHANGED <<self, other, panicked>>

\* The boundary combinators, applied to a boundary of each operand.
IntersectOrLeast ==
    /\ ~panicked
    /\ \E x \in {self.start, self.end}, y \in {other.start, other.end} :
        /\ op' = "intersect_or_least"
        /\ args' = [x |-> x, y |-> y]
        /\ ret' = intersect_or_least(x, y)
    /\ UNCHANGED <<self, other, panicked>>

IntersectOrGreatest ==
    /\ ~panicked
    /\ \E x \in {self.start, self.end}, y \in {other.start, other.end} :
        /\ op' = "intersect_or_greatest"
        /\ args' = [x |-> x, y |-> y]
        /\ ret' = intersect_or_greatest(x, y)
    /\ UNCHANGED <<self, other, panicked>>

UnionOrLeast ==
    /\ ~panicked
    /\ \E x \in {self.start, self.end}, y \in {other.start, other.end} :
        /\ op' = "union_or_least"
        /\ args' = [x |-> x, y |-> y]
        /\ ret' = union_or_least(x, y)
    /\ UNCHANGED <<self, other, panicked>>

UnionOrGreatest ==
    /\ ~panicked
    /\ \E x \in {self.start, self.end}, y \in {other.start, other.end} :
        /\ op' = "union_or_greatest"
        /\ args' = [x |-> x, y |-> y]
        /\ ret' = union_or_greatest(x, y)
    /\ UNCHANGED <<self, other, panicked>>

\* The operations whose body is unimplemented!(): the call panics.
Union ==
    /\ ~panicked
    /\ op' = "union"
    /\ args' = <<>>
    /\ ret' = Panic
    /\ panicked' = TRUE
    /\ UNCHANGED <<self, other>>

Minus ==
    /\ ~panicked
    /\ op' = "minus"
    /\ args' = <<>>
    /\ ret' = Panic
    /\ panicked' = TRUE
    /\ UNCHANGED <<self, other>>

Connect ==
    /\ ~panicked
    /\ op' = "connect"
    /\ args' = <<>>
    /\ ret' = Panic
    /\ panicked' = TRUE
    /\ UNCHANGED <<self, other>>

Normalize ==
    /\ ~panicked
    /\ op' = "normalize"
    /\ \E intervals \in {<<>>, <<self>>, <<self, other>>} : args' = [intervals |-> intervals]
    /\ ret' = Panic
    /\ panicked' = TRUE
    /\ UNCHANGED <<self, other>>

Next ==
    \/ New
    \/ Open
    \/ Closed
    \/ LeftOpen
    \/ RightOpen
    \/ IsEmpty
    \/ Contains
    \/ Intersect
    \/ IntersectOrLeast
    \/ IntersectOrGreatest
    \/ UnionOrLeast
    \/ UnionOrGreatest
    \/ Union
    \/ Minus
    \/ Connect
    \/ Normalize

Spec == Init /\ [][Next]_vars

(***************************************************************************)
(* Properties.  Each is stated on the recorded call: op names the          *)
(* operation just applied, args its arguments, self and other its interval *)
(* operands and ret what it returned.                                      *)
(***************************************************************************)
Constructors == {"new", "open", "closed", "left_open", "right_open"}

\* Point membership written on the fields of an interval value.
Member(i, p) ==
    \/ i.start.point < p /\ p < i.end.point
    \/ p = i.start.point /\ i.start.tag = "Include"
    \/ p = i.end.point /\ i.end.tag = "Include"

\* An interval with both boundaries exclusive at one point.
BothExclusiveAtOnePoint(i) ==
    /\ i.start.point = i.end.point
    /\ i.start.tag = "Exclude"
    /\ i.end.tag = "Exclude"

\* C1: intersect is the set intersection: a point is in the result of
\* self.intersect(other) (None holding no point) iff self and other both
\* contain it.
C1_IntersectIsSetIntersection ==
    op = "intersect" =>
        \A p \in Point :
            (ret.tag = "Some" /\ contains(ret.val, p))
                <=> (contains(self, p) /\ contains(other, p))

\* C2 as stated: for any two boundaries l and r, also at the same point,
\* new(l, Some(r)) and new(r, Some(l)) are the same interval, whose left
\* boundary has the lesser point.
C2_SwapAnyBoundaries ==
    (op = "new" /\ args.end.tag = "Some") =>
        /\ ret = new(args.end.val, Some(args.start))
        /\ ret.start.point <= args.start.point
        /\ ret.start.point <= args.end.val.point

\* C2 amended: for two boundaries l and r at different points, or equal to
\* each other, new(l, Some(r)) and new(r, Some(l)) are the same interval,
\* whose left boundary is the one with the lesser point.
C2_SwapDistinctPoints ==
    (op = "new" /\ args.end.tag = "Some") =>
        LET l == args.start
            r == args.end.val
        IN  (l.point # r.point \/ l = r) =>
                /\ ret = new(r, Some(l))
                /\ ret.start = (IF l.point <= r.point THEN l ELSE r)
                /\ ret.end = (IF l.point <= r.point THEN r ELSE l)

C2_Witness ==
    /\ op = "new"
    /\ args.end.tag = "Some"
    /\ args.start.point > args.end.val.point
    /\ ret = [start |-> args.end.val, end |-> args.start]

\* C3: every interval a constructor returns, and every interval intersect
\* returns inside Some, has left_point <= right_point, whatever the order of
\* the arguments.
C3_LeftNotAfterRight ==
    /\ op \in Constructors => ret.start.point <= ret.end.point
    /\ (op = "intersect" /\ ret.tag = "Some") => ret.val.start.point <= ret.val.end.point
    /\ self.start.point <= self.end.point
    /\ other.start.point <= other.end.point

C3_Witness ==
    /\ op \in Constructors \ {"new"}
    /\ args.start > args.end
    /\ ret.start.point = args.end
    /\ ret.end.point = args.start

\* C4: is_empty is true iff both boundaries are at one point and both are
\* exclusive; so open(x, x) and new(Exclude(x), None) are empty, left_open(x, x),
\* right_open(x, x), closed(x, x) and new(Include(x), None) are not, and no
\* interval with left_point < right_point is.
C4_IsEmptyIffBothExclusive ==
    op = "is_empty" =>
        /\ ret <=> BothExclusiveAtOnePoint(self)
        /\ \A x \in Point :
            /\ self \in {open(x, x), new(Exclude(x), None)} => ret = TRUE
            /\ self \in {left_open(x, x), right_open(x, x), closed(x, x),
                         new(Include(x), None)} => ret = FALSE
        /\ self.start.point < self.end.point => ret = FALSE

C4_Witness ==
    /\ op = "is_empty"
    /\ self = [start |-> Exclude(1), end |-> Include(1)]
    /\ ret = FALSE

\* C5: contains(p) is true iff p is strictly between the end points, or is
\* the left point with the left boundary Include, or is the right point with
\* the right boundary Include; for right_open(l, r) with l < r that is
\* l <= p < r.
C5_ContainsExact ==
    op = "contains" =>
        /\ ret <=> Member(self, args.point)
        /\ \A l, r \in Point :
            (l < r /\ self = [start |-> Include(l), end |-> Exclude(r)]) =>
                (ret <=> (l <= args.point /\ args.point < r))

C5_Witness ==
    /\ op = "contains"
    /\ self = [start |-> Include(0), end |-> Exclude(2)]
    /\ args.point = 2
    /\ ret = FALSE

\* C6: the four boundary combinators: at different points the *_or_least
\* ones return the boundary with the lesser point and the *_or_greatest ones
\* the one with the greater point, unchanged; at one point the intersect_*
\* ones return Include iff both are closed, else Exclude, and the union_*
\* ones Include iff at least one is closed, else Exclude.
C6_BoundaryCombinators ==
    LET x == args.x
        y == args.y
        lesser == IF x.point < y.point THEN x ELSE y
        greater == IF x.point > y.point THEN x ELSE y
        both == x.tag = "Include" /\ y.tag = "Include"
        either == x.tag = "Include" \/ y.tag = "Include"
        at(closed_) == [tag |-> IF closed_ THEN "Include" ELSE "Exclude", point |-> x.point]
    IN  /\ op = "intersect_or_least" =>
            ret = (IF x.point # y.point THEN lesser ELSE at(both))
        /\ op = "intersect_or_greatest" =>
            ret = (IF x.point # y.point THEN greater ELSE at(both))
        /\ op = "union_or_least" =>
            ret = (IF x.point # y.point THEN lesser ELSE at(either))
        /\ op = "union_or_greatest" =>
            ret = (IF x.point # y.point THEN greater ELSE at(either))

C6_Witness ==
    /\ op = "intersect_or_least"
    /\ args.x = Include(0)
    /\ args.y = Exclude(0)
    /\ ret = Exclude(0)

C8_IntersectWithEmpty ==
    (op = "intersect" /\ (BothExclusiveAtOnePoint(self) \/ BothExclusiveAtOnePoint(other)))
        => ret = None

C8_Witness ==
    /\ op = "intersect"
    /\ self = open(1, 1)
    /\ other = self
    /\ ret = None

\* C9: a.intersect(a) = Some(a) for every non-empty interval a, of any of the
\* four open/closed combinations, single-point intervals included.
C9_IntersectIdentity ==
    (op = "intersect" /\ self = other /\ ~BothExclusiveAtOnePoint(self))
        => ret = Some(self)

C9_Witness ==
    /\ op = "intersect"
    /\ self = closed(1, 1)
    /\ other = self
    /\ ret = Some(closed(1, 1))

\* C10: no operation raises a fatal error: intersect, union, minus, connect
\* and normalize each return a result or an absence marker, never a panic.
C10_NoFatalError ==
    op \in {"intersect", "union", "minus", "connect", "normalize"} =>
        /\ ~panicked
        /\ ret.tag # "Panic"

\* C11: intersect is commutative: what self.intersect(other) returned is what
\* other.intersect(self) returns, for all operands, single-point ones and
\* ones with the same left point included.
C11_IntersectCommutative ==
    op = "intersect" => ret = intersect(other, self)

\* C12: intersect never returns Some of an empty interval: an empty
\* intersection is always None.
C12_NoSomeOfEmpty ==
    (op = "intersect" /\ ret.tag = "Some") => ~BothExclusiveAtOnePoint(ret.val)

====
